---- MODULE Spec2Model ----
(***************************************************************************)
(* Model of the seoAI server code:                                         *)
(*   - the evaluation orchestrator initiateEvaluation                      *)
(*     (src/lib/server/evaluator/index.js), one run of it;                 *)
(*   - the authentication wrappers register, login, resetPassword          *)
(*     (firebase auth module), one invocation of one of them.              *)
(* JavaScript runs to completion: the synchronous part of a function is    *)
(* never interleaved with a promise settling.  The map callback of         *)
(* initiateEvaluation holds no await, so every iteration is one step and   *)
(* nothing settles between two iterations.                                 *)
(***************************************************************************)
EXTENDS Integers, Sequences, FiniteSets, TLC

\* ---------------------------------------------------------------- bounds
\* Number of distinct urlIds a scan result set may hold.
MaxUrls == 2

\* ---------------------------------------------------------------- values
UrlPool == <<"u1", "u2", "u3", "u4">>
UrlIds == {UrlPool[i] : i \in 1..MaxUrls}
Undefined == "undefined"
Domains == {"a.com", "b.org"}
Dates == {"2024-01-01"}
Errors == {"E1", "E2"}
\* The four categories, in the order the callback runs their checks.
CatOrder == <<"meta", "body", "social", "schema">>
Cats == {CatOrder[i] : i \in 1..Len(CatOrder)}
\* What one check invocation does: return a value, throw, or (an async
\* implementation) return a promise.
Behaviours == {"return", "throw", "async"}
\* The sets of check functions that may be implemented as async functions.
AsyncImpls == {{}, {"meta"}, {"schema"}}
\* What one updateIssueDocument invocation does: return a promise, or throw
\* before returning one.
SinkModes == {"promise", "throw"}

\* Injective sequences over UrlIds: Object.entries of a mapping with unique keys.
RECURSIVE Perms(_)
Perms(S) ==
    IF S = {} THEN {<<>>}
    ELSE UNION {{<<x>> \o p : p \in Perms(S \ {x})} : x \in S}
ResultSets == UNION {Perms(S) : S \in SUBSET UrlIds}

Range(s) == {s[i] : i \in 1..Len(s)}

\* ---------------------------------------------------------------- state
VARIABLES
    pc,           \* position of initiateEvaluation
    config,       \* the one configuration object of the run
    scanResults,  \* the fetched result set, as its sequence of keys
    all,          \* the duplicate-detection context
    fetchLog,     \* the calls made to the scan data source
    fetches,      \* operation of the scan data source -> the promise it returned
    idx,          \* index of the next entry the map visits
    issues,       \* urlId -> the issues object built for it
    bundleLog,    \* urlIds for which an issues object was created
    checks,       \* urlId -> category -> state of that check invocation
    sinkCalls,    \* the updateIssueDocument invocations, in order
    sink,         \* urlId -> state of its sink submission
    task,         \* urlId -> state of the promise of its map callback
    firstRejected,\* the urlId whose callback promise was the first to reject
    asyncCats,    \* the categories whose check function is an async function
    pall,         \* the Promise.all promise
    outcome,      \* the promise initiateEvaluation returned
    errorLog,     \* what console.error was given
    authPc,       \* position of the authentication wrapper
    authCall,     \* the wrapper invocation
    providerCalls,\* the calls made to the identity provider
    providerResult,\* what the provider call settled to
    authOutcome,  \* the promise the wrapper returned
    authLog       \* what console.log was given

evalVars == <<pc, config, scanResults, all, fetchLog, fetches, idx, issues, bundleLog,
              checks, sinkCalls, sink, task, firstRejected, asyncCats, pall, outcome, errorLog>>
authVars == <<authPc, authCall, providerCalls, providerResult, authOutcome, authLog>>
vars == <<pc, config, scanResults, all, fetchLog, fetches, idx, issues, bundleLog,
          checks, sinkCalls, sink, task, firstRejected, asyncCats, pall, outcome, errorLog,
          authPc, authCall, providerCalls, providerResult, authOutcome, authLog>>

Pending == [state |-> "pending", value |-> Undefined]
Fulfilled(v) == [state |-> "fulfilled", value |-> v]
Rejected(e) == [state |-> "rejected", value |-> e]
NotCreated == [state |-> "none", value |-> Undefined]
FetchOps == {"getScanCollection", "getDataForDuplicateCheck"}

\* ------------------------------------------------- external collaborators
\* getConfig(domain, dateOfScan): the configuration of the run, urlId unset.
getConfig(domain, dateOfScan) ==
    [domain |-> domain, dateOfScan |-> dateOfScan, urlId |-> Undefined]

\* The aggregate getDataForDuplicateCheck resolves to, opaque.
DuplicateContext == "all"

\* The scan data of one url: four opaque category slices.
UrlData(urlId) == [c \in Cats |-> <<c, urlId>>]

\* The check functions, uninterpreted: the result names what it was computed from.
checkMetaData(meta, ctx) == [check |-> "meta", data |-> meta, ctx |-> ctx]
checkBodyData(body) == [check |-> "body", data |-> body, ctx |-> Undefined]
checkSocialData(social) == [check |-> "social", data |-> social, ctx |-> Undefined]
checkSchemaData(schema) == [check |-> "schema", data |-> schema, ctx |-> Undefined]


\* ------------------------------------------------------ the orchestrator
\* Mutant of SetUrlId: the id is assigned only while it is unset (config.urlId ??= urlId).
SetUrlIdOnce(cfg, urlId) ==
    IF cfg.urlId = Undefined THEN [cfg EXCEPT !.urlId = urlId] ELSE cfg

\* A call of the scan data source with the domain and date of the configuration.
FetchCall(op, cfg) == [op |-> op, domain |-> cfg.domain, dateOfScan |-> cfg.dateOfScan]

\* Mutant of CallsBeforeFirstAwait: the two fetches are started together.
CallsBothAtOnce(cfg) ==
    <<FetchCall("getScanCollection", cfg), FetchCall("getDataForDuplicateCheck", cfg)>>

\* The data source calls made before the first await: getScanCollection alone.
CallsBeforeFirstAwait(cfg) == <<FetchCall("getScanCollection", cfg)>>

\* Mutant of InSyncSection: the callback yields between its calls (an await
\* in it, or a loop that awaits each submission), so promises settle during the map.
InSyncSectionNever(p) == FALSE

\* The run is inside the map: synchronous code, during which no promise
\* reaction and no I/O completion runs.
InSyncSection(p) == p = "dispatch"

\* config.urlId = urlId: the assignment is to the one object of the run.
SetUrlId(cfg, urlId) == [cfg EXCEPT !.urlId = urlId]

\* Mutant of CheckCall: the duplicate context is passed to every check
\* (the TODO of the source carried out for all four).
CheckCallAllGetContext(c, urlData, ctx) ==
    [check |-> c, data |-> urlData[c], ctx |-> ctx]

\* Mutant of CheckCall: the social check is given the schema slice.
CheckCallWrongSlice(c, urlData, ctx) ==
    CASE c = "meta" -> checkMetaData(urlData.meta, ctx)
      [] c = "body" -> checkBodyData(urlData.body)
      [] c = "social" -> checkSocialData(urlData.schema)
      [] c = "schema" -> checkSchemaData(urlData.schema)

\* The call each category's line makes.
CheckCall(c, urlData, ctx) ==
    CASE c = "meta" -> checkMetaData(urlData.meta, ctx)
      [] c = "body" -> checkBodyData(urlData.body)
      [] c = "social" -> checkSocialData(urlData.social)
      [] c = "schema" -> checkSchemaData(urlData.schema)

\* Position in CatOrder of the first check that throws, Len(CatOrder) + 1 if none.
FirstThrow(beh) ==
    LET T == {i \in 1..Len(CatOrder) : beh[CatOrder[i]] = "throw"}
    IN IF T = {} THEN Len(CatOrder) + 1
       ELSE CHOOSE i \in T : \A j \in T : i <= j

\* The categories whose assignment issues.<c> = check<C>Data(...) completed:
\* those before the first throw.
Assigned(beh) == {CatOrder[i] : i \in 1..(FirstThrow(beh) - 1)}

\* Mutant of ReachesReturn: a throwing check does not end the callback
\* (the checks wrapped in a try block that swallows the error).
ReachesReturnAlways(beh) == TRUE

\* The callback reaches its return statement: no check threw.
ReachesReturn(beh) == FirstThrow(beh) > Len(CatOrder)

\* Mutant of NextEntry: a throw in the callback leaves the map (a callback
\* that is not an async function, or a for loop around the same body).
NextEntryAbort(i, keys, threw) == IF threw THEN Len(keys) + 1 ELSE i + 1

\* The entry the map visits after entry i: the callback is an async function,
\* so a throw in it rejects its promise and the map goes on.
NextEntry(i, keys, threw) == i + 1

\* What the assignment stores: the value, or the promise of an async check.
IssueField(c, urlData, ctx, b) ==
    [kind |-> IF b = "async" THEN "promise" ELSE "value",
     result |-> CheckCall(c, urlData, ctx)]

\* Mutant of CollectIssues: the line issues.schema = ... is missing.
CollectIssuesNoSchema(urlData, ctx, beh) ==
    [c \in Assigned(beh) \ {"schema"} |-> IssueField(c, urlData, ctx, beh[c])]

\* let issues = {}; issues.meta = ...; ... issues.schema = ...
CollectIssues(urlData, ctx, beh) ==
    [c \in Assigned(beh) |-> IssueField(c, urlData, ctx, beh[c])]

\* State of each check invocation of one iteration.
CheckStates(beh) ==
    [c \in Cats |->
        IF c \in Assigned(beh)
        THEN (IF beh[c] = "async" THEN "pending" ELSE "returned")
        ELSE IF FirstThrow(beh) <= Len(CatOrder) /\ c = CatOrder[FirstThrow(beh)]
             THEN "threw" ELSE "none"]

\* What the check invocations of one call of the callback may do: an async
\* function returns a promise whatever happens in it, another one returns or throws.
CallBehaviours(async) ==
    {beh \in [Cats -> Behaviours] :
        \A c \in Cats : (beh[c] = "async") <=> (c \in async)}

\* The first callback promise to reject, once urlId's has rejected.
NoteRejected(first, urlId) == IF first = Undefined THEN urlId ELSE first

\* Mutant of ConfigArgument: the call is given a copy of the configuration
\* made at the call (updateIssueDocument({ ...config }, issues)).
ConfigArgumentCloned(call) == call.config

\* What the configuration argument of a sink call reads as now: the argument
\* is the configuration object of the run itself, not a copy of it.
ConfigArgument(call) == config

\* return updateIssueDocument(config, issues): the promise of the callback
\* takes the state of the promise the sink returned.
CallbackReturn(sinkPromise) == sinkPromise

\* Mutant of PromiseAll: a join counting completions down from the callbacks,
\* which never completes when there is no callback.
PromiseAllStuckOnEmpty(keys, tasks) ==
    LET R == {i \in 1..Len(keys) : tasks[keys[i]].state = "rejected"}
    IN IF R # {}
       THEN Rejected(tasks[keys[CHOOSE i \in R : \A j \in R : i <= j]].value)
       ELSE Pending

\* Promise.all(promises) at the call: the callbacks that threw are rejected
\* already and their reactions run first, in index order.
PromiseAll(keys, tasks) ==
    LET R == {i \in 1..Len(keys) : tasks[keys[i]].state = "rejected"}
    IN IF R # {}
       THEN Rejected(tasks[keys[CHOOSE i \in R : \A j \in R : i <= j]].value)
       ELSE IF \A i \in 1..Len(keys) : tasks[keys[i]].state = "fulfilled"
            THEN Fulfilled(Undefined)
            ELSE Pending

\* Mutant of PromiseAllReact: the first promise to settle settles the join
\* (Promise.race in place of Promise.all).
PromiseAllReactRace(p, keys, tasks, urlId) ==
    IF p.state # "pending" THEN p
    ELSE IF tasks[urlId].state = "rejected" THEN Rejected(tasks[urlId].value)
    ELSE Fulfilled(Undefined)

\* Mutant of PromiseAllReact: a later rejection replaces the one the join holds.
PromiseAllReactLast(p, keys, tasks, urlId) ==
    IF tasks[urlId].state = "rejected" /\ p.state # "fulfilled"
    THEN Rejected(tasks[urlId].value)
    ELSE IF p.state # "pending" THEN p
    ELSE IF \A i \in 1..Len(keys) : tasks[keys[i]].state = "fulfilled"
         THEN Fulfilled(Undefined)
         ELSE p

\* Mutant of PromiseAllReact: the join waits for every promise to fulfil
\* and does not react to a rejection.
PromiseAllReactIgnoreReject(p, keys, tasks, urlId) ==
    IF p.state # "pending" THEN p
    ELSE IF \A i \in 1..Len(keys) : tasks[keys[i]].state = "fulfilled"
         THEN Fulfilled(Undefined)
         ELSE p

\* Promise.all's reaction to the promise of urlId settling.
PromiseAllReact(p, keys, tasks, urlId) ==
    IF p.state # "pending" THEN p
    ELSE IF tasks[urlId].state = "rejected" THEN Rejected(tasks[urlId].value)
    ELSE IF \A i \in 1..Len(keys) : tasks[keys[i]].state = "fulfilled"
         THEN Fulfilled(Undefined)
         ELSE p

\* Mutant of CatchRethrow: the catch block logs and does not rethrow.
CatchSwallow(error) == Fulfilled(Undefined)

\* catch (error) { console.error(...); throw error; }
CatchRethrow(error) == Rejected(error)

\* The async function returns nothing: it resolves to undefined.
ReturnVoid == Fulfilled(Undefined)

EvalInit ==
    /\ pc = "start"
    /\ config = getConfig(Undefined, Undefined)
    /\ scanResults = <<>>
    /\ all = Undefined
    /\ fetchLog = <<>>
    /\ fetches = [op \in FetchOps |-> NotCreated]
    /\ idx = 1
    /\ issues = [u \in UrlIds |-> <<>>]
    /\ bundleLog = <<>>
    /\ checks = [u \in UrlIds |-> [c \in Cats |-> "none"]]
    /\ sinkCalls = <<>>
    /\ sink = [u \in UrlIds |-> NotCreated]
    /\ task = [u \in UrlIds |-> NotCreated]
    /\ firstRejected = Undefined
    /\ asyncCats \in AsyncImpls
    /\ pall = NotCreated
    /\ outcome = NotCreated
    /\ errorLog = <<>>

\* initiateEvaluation(domain, dateOfScan) up to its first await.
InitiateEvaluation ==
    /\ pc = "start"
    /\ \E domain \in Domains, dateOfScan \in Dates :
        LET cfg == getConfig(domain, dateOfScan) IN
        /\ config' = cfg
        /\ fetchLog' = fetchLog \o CallsBeforeFirstAwait(cfg)
    /\ fetches' = [fetches EXCEPT !["getScanCollection"] = Pending]
    /\ outcome' = Pending
    /\ pc' = "fetchScan"
    /\ UNCHANGED <<scanResults, all, idx, issues, bundleLog, checks, sinkCalls,
                   sink, task, firstRejected, asyncCats, pall, errorLog>>
    /\ UNCHANGED authVars

\* getScanCollection fulfils; getDataForDuplicateCheck is called.
ScanCollectionFulfils ==
    /\ pc = "fetchScan"
    /\ \E r \in ResultSets :
        /\ scanResults' = r
        /\ fetches' = [fetches EXCEPT !["getScanCollection"] = Fulfilled(r),
                                      !["getDataForDuplicateCheck"] = Pending]
    /\ fetchLog' = Append(fetchLog, FetchCall("getDataForDuplicateCheck", config))
    /\ pc' = "fetchDup"
    /\ UNCHANGED <<config, all, idx, issues, bundleLog, checks, sinkCalls,
                   sink, task, firstRejected, asyncCats, pall, outcome, errorLog>>
    /\ UNCHANGED authVars

\* getScanCollection rejects: the catch block logs and rethrows.
ScanCollectionRejects ==
    /\ pc = "fetchScan"
    /\ \E e \in Errors :
        /\ fetches' = [fetches EXCEPT !["getScanCollection"] = Rejected(e)]
        /\ errorLog' = Append(errorLog, e)
        /\ outcome' = CatchRethrow(e)
    /\ pc' = "rejected"
    /\ UNCHANGED <<config, scanResults, all, fetchLog, idx, issues, bundleLog,
                   checks, sinkCalls, sink, task, firstRejected, asyncCats, pall>>
    /\ UNCHANGED authVars

\* getDataForDuplicateCheck fulfils; the map over the entries begins.
DuplicateCheckFulfils ==
    /\ pc = "fetchDup"
    /\ all' = DuplicateContext
    /\ fetches' = [fetches EXCEPT !["getDataForDuplicateCheck"] =
                                      Fulfilled(DuplicateContext)]
    /\ idx' = 1
    /\ pc' = "dispatch"
    /\ UNCHANGED <<config, scanResults, fetchLog, issues, bundleLog, checks,
                   sinkCalls, sink, task, firstRejected, asyncCats, pall, outcome, errorLog>>
    /\ UNCHANGED authVars

\* getDataForDuplicateCheck rejects: the catch block logs and rethrows.
DuplicateCheckRejects ==
    /\ pc = "fetchDup"
    /\ \E e \in Errors :
        /\ fetches' = [fetches EXCEPT !["getDataForDuplicateCheck"] = Rejected(e)]
        /\ errorLog' = Append(errorLog, e)
        /\ outcome' = CatchRethrow(e)
    /\ pc' = "rejected"
    /\ UNCHANGED <<config, scanResults, all, fetchLog, idx, issues, bundleLog,
                   checks, sinkCalls, sink, task, firstRejected, asyncCats, pall>>
    /\ UNCHANGED authVars

\* One call of the map callback, async ([urlId, urlData]) => {...}: it holds
\* no await, so it runs from its first line to its return (or throw) at once.
MapCallback ==
    /\ pc = "dispatch"
    /\ idx <= Len(scanResults)
    /\ LET urlId == scanResults[idx]
           urlData == UrlData(urlId)
       IN \E beh \in CallBehaviours(asyncCats), e \in Errors, mode \in SinkModes :
          LET threw == ~ReachesReturn(beh)
              cfg == SetUrlId(config, urlId)
              bundle == CollectIssues(urlData, all, beh)
              chk == CheckStates(beh)
          IN
          /\ config' = cfg
          /\ bundleLog' = Append(bundleLog, urlId)
          /\ issues' = [issues EXCEPT ![urlId] = bundle]
          /\ checks' = [checks EXCEPT ![urlId] = chk]
          /\ idx' = NextEntry(idx, scanResults, threw)
          /\ IF threw
             THEN /\ task' = [task EXCEPT ![urlId] = Rejected(e)]
                  /\ firstRejected' = NoteRejected(firstRejected, urlId)
                  /\ UNCHANGED <<sinkCalls, sink>>
             ELSE /\ sinkCalls' = Append(sinkCalls,
                        [urlId |-> urlId, config |-> cfg, bundle |-> bundle,
                         unfinished |-> {c \in Cats : chk[c] = "pending"}])
                  /\ IF mode = "throw"
                     THEN /\ sink' = [sink EXCEPT ![urlId] = Rejected(e)]
                          /\ task' = [task EXCEPT ![urlId] = Rejected(e)]
                          /\ firstRejected' = NoteRejected(firstRejected, urlId)
                     ELSE /\ sink' = [sink EXCEPT ![urlId] = Pending]
                          /\ task' = [task EXCEPT ![urlId] = Pending]
                          /\ UNCHANGED firstRejected
    /\ UNCHANGED <<pc, scanResults, all, fetchLog, fetches, asyncCats, pall, outcome, errorLog>>
    /\ UNCHANGED authVars

\* await Promise.all(promises): the map is over, the run suspends on the join.
Join ==
    /\ pc = "dispatch"
    /\ idx > Len(scanResults)
    /\ pall' = PromiseAll(scanResults, task)
    /\ pc' = "join"
    /\ UNCHANGED <<config, scanResults, all, fetchLog, fetches, idx, issues, bundleLog,
                   checks, sinkCalls, sink, task, firstRejected, asyncCats, outcome, errorLog>>
    /\ UNCHANGED authVars

\* An async check's promise settles (nothing awaits it).
CheckCompletes ==
    /\ ~InSyncSection(pc)
    /\ \E u \in UrlIds, c \in Cats :
        /\ checks[u][c] = "pending"
        /\ checks' = [checks EXCEPT ![u][c] = "completed"]
    /\ UNCHANGED <<pc, config, scanResults, all, fetchLog, fetches, idx, issues, bundleLog,
                   sinkCalls, sink, task, firstRejected, asyncCats, pall, outcome, errorLog>>
    /\ UNCHANGED authVars

\* The sink promise of a url settles to p: the promise of the callback that
\* returned it follows, and Promise.all reacts to that.
SinkSettles(u, p) ==
    /\ ~InSyncSection(pc)
    /\ sink[u].state = "pending"
    /\ sink' = [sink EXCEPT ![u] = p]
    /\ LET t == [task EXCEPT ![u] = CallbackReturn(p)] IN
        /\ task' = t
        /\ pall' = PromiseAllReact(pall, scanResults, t, u)
        /\ firstRejected' = IF t[u].state = "rejected"
                            THEN NoteRejected(firstRejected, u)
                            ELSE firstRejected
    /\ UNCHANGED <<pc, config, scanResults, all, fetchLog, fetches, idx, issues, bundleLog,
                   checks, sinkCalls, asyncCats, outcome, errorLog>>
    /\ UNCHANGED authVars

\* The sink accepts the submission of a url.
SinkFulfils == \E u \in UrlIds : SinkSettles(u, Fulfilled(Undefined))

\* The sink fails the submission of a url.
SinkRejects == \E u \in UrlIds, e \in Errors : SinkSettles(u, Rejected(e))

\* The await on Promise.all resumes: the function returns, or the catch
\* block logs and rethrows.
JoinResumes ==
    /\ pc = "join"
    /\ pall.state \in {"fulfilled", "rejected"}
    /\ IF pall.state = "fulfilled"
       THEN /\ outcome' = ReturnVoid
            /\ pc' = "resolved"
            /\ UNCHANGED errorLog
       ELSE /\ errorLog' = Append(errorLog, pall.value)
            /\ outcome' = CatchRethrow(pall.value)
            /\ pc' = "rejected"
    /\ UNCHANGED <<config, scanResults, all, fetchLog, fetches, idx, issues, bundleLog,
                   checks, sinkCalls, sink, task, firstRejected, asyncCats, pall>>
    /\ UNCHANGED authVars

\* ------------------------------------------------ the authentication wrappers
Emails == {"a@x.io", "b@x.io"}
Passwords == {"pw1", "pw2"}
Uids == {"uid1", "uid2"}
\* The user object of the identity provider: more than uid and email.
Users == [uid : Uids, email : Emails, emailVerified : BOOLEAN]
UserCredentials == [user : Users]

\* return user;
RegisterResult(userCredential) == userCredential.user

\* Mutant of LoginResult: login returns the user as register does.
LoginResultUser(userCredential) == userCredential.user

\* return { uid: user.uid, email: user.email };
LoginResult(userCredential) ==
    [uid |-> userCredential.user.uid, email |-> userCredential.user.email]

\* catch (error) { console.log(...); throw error; }
AuthRethrow(error) == Rejected(error)

\* The provider calls of one wrapper invocation: one call is appended.
ProviderCall(calls, fn, email, password) ==
    Append(calls, [fn |-> fn, auth |-> "auth", email |-> email, password |-> password])

AuthIdle ==
    /\ authPc = "idle"
    /\ authCall = <<>>
    /\ providerCalls = <<>>
    /\ providerResult = NotCreated
    /\ authOutcome = NotCreated
    /\ authLog = <<>>

\* register(email, password) up to its await.
Register ==
    /\ authPc = "idle"
    /\ \E email \in Emails, password \in Passwords :
        /\ authCall' = [fn |-> "register", email |-> email, password |-> password]
        /\ providerCalls' = ProviderCall(providerCalls,
              "createUserWithEmailAndPassword", email, password)
    /\ providerResult' = Pending
    /\ authOutcome' = Pending
    /\ authPc' = "awaiting"
    /\ UNCHANGED authLog
    /\ UNCHANGED evalVars

\* login(email, password) up to its await.
Login ==
    /\ authPc = "idle"
    /\ \E email \in Emails, password \in Passwords :
        /\ authCall' = [fn |-> "login", email |-> email, password |-> password]
        /\ providerCalls' = ProviderCall(providerCalls,
              "signInWithEmailAndPassword", email, password)
    /\ providerResult' = Pending
    /\ authOutcome' = Pending
    /\ authPc' = "awaiting"
    /\ UNCHANGED authLog
    /\ UNCHANGED evalVars

\* resetPassword(email) up to its await.
ResetPassword ==
    /\ authPc = "idle"
    /\ \E email \in Emails :
        /\ authCall' = [fn |-> "resetPassword", email |-> email, password |-> Undefined]
        /\ providerCalls' = ProviderCall(providerCalls,
              "sendPasswordResetEmail", email, Undefined)
    /\ providerResult' = Pending
    /\ authOutcome' = Pending
    /\ authPc' = "awaiting"
    /\ UNCHANGED authLog
    /\ UNCHANGED evalVars

\* The provider call fulfils: with a user credential, or (password reset) with nothing.
ProviderFulfils ==
    /\ authPc = "awaiting"
    /\ providerResult.state = "pending"
    /\ IF authCall.fn = "resetPassword"
       THEN providerResult' = Fulfilled(Undefined)
       ELSE \E cred \in UserCredentials : providerResult' = Fulfilled(cred)
    /\ UNCHANGED <<authPc, authCall, providerCalls, authOutcome, authLog>>
    /\ UNCHANGED evalVars

\* The provider call rejects.
ProviderRejects ==
    /\ authPc = "awaiting"
    /\ providerResult.state = "pending"
    /\ \E e \in Errors : providerResult' = Rejected(e)
    /\ UNCHANGED <<authPc, authCall, providerCalls, authOutcome, authLog>>
    /\ UNCHANGED evalVars

\* register after its await: the rest of the try block, or the catch block.
RegisterResumes ==
    /\ authPc = "awaiting"
    /\ authCall.fn = "register"
    /\ providerResult.state \in {"fulfilled", "rejected"}
    /\ IF providerResult.state = "fulfilled"
       THEN /\ authLog' = Append(authLog, "Registration successful")
            /\ authOutcome' = Fulfilled(RegisterResult(providerResult.value))
       ELSE /\ authLog' = Append(authLog, "Registration failed:")
            /\ authOutcome' = AuthRethrow(providerResult.value)
    /\ authPc' = "done"
    /\ UNCHANGED <<authCall, providerCalls, providerResult>>
    /\ UNCHANGED evalVars

\* login after its await.
LoginResumes ==
    /\ authPc = "awaiting"
    /\ authCall.fn = "login"
    /\ providerResult.state \in {"fulfilled", "rejected"}
    /\ IF providerResult.state = "fulfilled"
       THEN /\ authLog' = Append(authLog, "Login successful")
            /\ authOutcome' = Fulfilled(LoginResult(providerResult.value))
       ELSE /\ authLog' = Append(authLog, "Sign-in failed:")
            /\ authOutcome' = AuthRethrow(providerResult.value)
    /\ authPc' = "done"
    /\ UNCHANGED <<authCall, providerCalls, providerResult>>
    /\ UNCHANGED evalVars

\* resetPassword after its await.
ResetPasswordResumes ==
    /\ authPc = "awaiting"
    /\ authCall.fn = "resetPassword"
    /\ providerResult.state \in {"fulfilled", "rejected"}
    /\ IF providerResult.state = "fulfilled"
       THEN /\ authLog' = Append(authLog, "Password reset email sent successfully")
            /\ authOutcome' = ReturnVoid
       ELSE /\ authLog' = Append(authLog, "Password reset failed:")
            /\ authOutcome' = AuthRethrow(providerResult.value)
    /\ authPc' = "done"
    /\ UNCHANGED <<authCall, providerCalls, providerResult>>
    /\ UNCHANGED evalVars

Init == EvalInit /\ AuthIdle

Next ==
    \/ InitiateEvaluation
    \/ ScanCollectionFulfils
    \/ ScanCollectionRejects
    \/ DuplicateCheckFulfils
    \/ DuplicateCheckRejects
    \/ MapCallback
    \/ Join
    \/ CheckCompletes
    \/ SinkFulfils
    \/ SinkRejects
    \/ JoinResumes

Spec == Init /\ [][Next]_vars

\* The run under the scheduling the event loop gives it: a step of the
\* function itself that can be taken is taken (the next callback of the map,
\* the call of Promise.all, the continuation after the join); nothing makes a
\* fetch or a sink submission settle.
Fairness ==
    /\ WF_vars(MapCallback)
    /\ WF_vars(Join)
    /\ WF_vars(JoinResumes)

SpecLive == Init /\ [][Next]_vars /\ Fairness

\* The authentication wrappers alone: one invocation of one wrapper.
InitAuth == EvalInit /\ asyncCats = {} /\ AuthIdle

NextAuth ==
    \/ Register
    \/ Login
    \/ ResetPassword
    \/ ProviderFulfils
    \/ ProviderRejects
    \/ RegisterResumes
    \/ LoginResumes
    \/ ResetPasswordResumes

SpecAuth == InitAuth /\ [][NextAuth]_vars

\* ================================================================ claims
\* The sink invocations made by the callback of urlId u.
SubmissionsFor(u) == {i \in 1..Len(sinkCalls) : sinkCalls[i].urlId = u}
\* The issues objects created by the callback of urlId u.
BundlesFor(u) == {i \in 1..Len(bundleLog) : bundleLog[i] = u}
BothFetched == \A op \in FetchOps : fetches[op].state = "fulfilled"
\* The map is over and the run has reached the join.
DispatchOver == pall.state # "none"
CheckThrew(u) == \E c \in Cats : checks[u][c] = "threw"
FailedUrlIds == {u \in Range(scanResults) : task[u].state = "rejected"}

\* C1: when initiateEvaluation resolves successfully, every urlId of the
\* fetched result set has had exactly one updateIssueDocument invocation, each
\* invocation carried a bundle with the four fields meta, body, social and
\* schema, and no invocation was for a urlId outside the result set.
C1_SuccessOneFullBundlePerUrl ==
    outcome.state = "fulfilled" =>
        /\ \A u \in Range(scanResults) : Cardinality(SubmissionsFor(u)) = 1
        /\ \A i \in 1..Len(sinkCalls) :
            /\ sinkCalls[i].urlId \in Range(scanResults)
            /\ sinkCalls[i].config.urlId \in Range(scanResults)
            /\ DOMAIN sinkCalls[i].bundle = Cats

C1_Witness ==
    /\ outcome.state = "fulfilled"
    /\ Len(scanResults) >= 2
    /\ Len(sinkCalls) = Len(scanResults)

\* C2: at the moment updateIssueDocument is invoked with the bundle of urlId
\* X, the configuration it is given has urlId = X.
C2_ConfigUrlIdAtInvocation ==
    \A i \in 1..Len(sinkCalls) : sinkCalls[i].config.urlId = sinkCalls[i].urlId

C2_Witness ==
    /\ Len(sinkCalls) >= 2
    /\ sinkCalls[1].urlId # sinkCalls[2].urlId
    /\ sink[sinkCalls[1].urlId].state = "pending"

\* C3: the configuration the sink received for urlId X (the one configuration
\* object of the run) keeps urlId = X for as long as the submission of X is in
\* flight.
C3_ConfigPrivateWhileInFlight ==
    \A i \in 1..Len(sinkCalls) :
        sink[sinkCalls[i].urlId].state = "pending" => config.urlId = sinkCalls[i].urlId

\* C4: when getScanCollection or getDataForDuplicateCheck rejects, the run
\* rejects with that same error, and no check was invoked, no issues object
\* was created and no sink submission was made.
C4_FetchFailureAbortsBeforeDispatch ==
    \A op \in FetchOps :
        fetches[op].state = "rejected" =>
            /\ outcome = Rejected(fetches[op].value)
            /\ \A u \in UrlIds, c \in Cats : checks[u][c] = "none"
            /\ bundleLog = <<>>
            /\ sinkCalls = <<>>
            /\ \A u \in UrlIds : sink[u].state = "none"

C4_Witness ==
    /\ fetches["getDataForDuplicateCheck"].state = "rejected"
    /\ Len(scanResults) >= 2
    /\ outcome.state = "rejected"

\* C5: initiateEvaluation has not resolved successfully while a sink
\* submission of the run is still pending: when it has, every submission of
\* the run has completed.
C5_ResolvesAfterAllSubmissions ==
    outcome.state = "fulfilled" =>
        /\ \A u \in UrlIds : sink[u].state # "pending"
        /\ \A u \in Range(scanResults) : sink[u].state = "fulfilled"

C5_Witness ==
    /\ outcome.state = "fulfilled"
    /\ Len(scanResults) >= 2
    /\ \A u \in Range(scanResults) : sink[u].state = "fulfilled"

\* C6: when a per-URL task fails, the run does not resolve successfully and
\* rejects with the error of the task that was the first to reject, unchanged;
\* the submissions still in flight are not cancelled: each can still complete or
\* fail, also after the run has rejected.
C6_FirstRejectionWinsNoCancel ==
    /\ (BothFetched /\ DispatchOver /\ FailedUrlIds # {}) =>
            /\ outcome.state # "fulfilled"
            /\ firstRejected \in FailedUrlIds
            /\ pall = Rejected(task[firstRejected].value)
    /\ (BothFetched /\ outcome.state = "rejected") =>
            /\ firstRejected \in FailedUrlIds
            /\ outcome = Rejected(task[firstRejected].value)
    /\ \A u \in UrlIds :
        sink[u].state = "pending" /\ DispatchOver =>
            /\ ENABLED SinkSettles(u, Fulfilled(Undefined))
            /\ \A e \in Errors : ENABLED SinkSettles(u, Rejected(e))

C6_Witness ==
    /\ outcome.state = "rejected"
    /\ BothFetched
    /\ \E u, v \in Range(scanResults) :
        /\ u = firstRejected
        /\ sink[u].state = "rejected"
        /\ sink[v].state = "pending"

\* C7 (as amended): in a run whose two fetches succeed, once the map is over
\* every urlId of the result set has had exactly one issues object created, and
\* exactly one sink submission unless one of its checks threw, in which case it
\* has none; no urlId ever has two submissions.
C7_OneBundleOneSubmissionUnlessCheckThrew ==
    /\ \A u \in UrlIds :
        /\ Cardinality(SubmissionsFor(u)) <= 1
        /\ Cardinality(BundlesFor(u)) <= 1
    /\ (BothFetched /\ DispatchOver) =>
        \A u \in Range(scanResults) :
            /\ Cardinality(BundlesFor(u)) = 1
            /\ Cardinality(SubmissionsFor(u)) = (IF CheckThrew(u) THEN 0 ELSE 1)

C7_Witness ==
    /\ BothFetched
    /\ DispatchOver
    /\ \E u, v \in Range(scanResults) :
        /\ CheckThrew(u)
        /\ sink[v].state = "rejected"
        /\ Cardinality(SubmissionsFor(v)) = 1

\* C7 (as stated): in a run whose two fetches succeed, every urlId of the
\* result set has exactly one issues object and exactly one sink submission,
\* whether or not a check or a sink write fails.
C7_ExactlyOneSubmissionAlways ==
    (BothFetched /\ DispatchOver) =>
        \A u \in Range(scanResults) :
            /\ Cardinality(BundlesFor(u)) = 1
            /\ Cardinality(SubmissionsFor(u)) = 1

\* The per-URL result summary a caller can read from a settled outcome: the
\* run settles with undefined or with the error it caught, which carry none.
NoSummary == [u \in {} |-> Undefined]
OutcomeSummary(o) == IF o.value \in Errors \cup {Undefined} THEN NoSummary ELSE o.value

\* C8: when exactly one urlId's check or submission failed, the settled
\* outcome of the run names that urlId as failed, and names as succeeded the
\* urlIds whose submissions had been accepted.
C8_OutcomeNamesFailedUrl ==
    (BothFetched /\ outcome.state \in {"fulfilled", "rejected"}
                 /\ Cardinality(FailedUrlIds) = 1) =>
        LET summary == OutcomeSummary(outcome) IN
        /\ \A u \in FailedUrlIds : u \in DOMAIN summary /\ summary[u] = "rejected"
        /\ \A u \in Range(scanResults) :
            (u \in DOMAIN summary /\ summary[u] = "fulfilled") => task[u].state = "fulfilled"

\* C9: a wrapper calls the identity provider exactly once; it rejects with the
\* provider's error, unchanged, when the provider call failed, and resolves when
\* it succeeded: register to the provider's user, login to exactly uid and
\* email of that user, resetPassword to no value; it never resolves after a
\* provider failure nor rejects after a provider success.
C9_AuthWrappersPassThrough ==
    /\ Len(providerCalls) = (IF authPc = "idle" THEN 0 ELSE 1)
    /\ authOutcome.state = "fulfilled" => providerResult.state = "fulfilled"
    /\ authOutcome.state = "rejected" => providerResult.state = "rejected"
    /\ authPc = "done" =>
        /\ providerResult.state = "rejected" =>
            /\ authOutcome.state = "rejected"
            /\ authOutcome.value = providerResult.value
        /\ providerResult.state = "fulfilled" =>
            /\ authOutcome.state = "fulfilled"
            /\ authCall.fn = "register" => authOutcome.value = providerResult.value.user
            /\ authCall.fn = "login" =>
                /\ DOMAIN authOutcome.value = {"uid", "email"}
                /\ authOutcome.value.uid = providerResult.value.user.uid
                /\ authOutcome.value.email = providerResult.value.user.email
            /\ authCall.fn = "resetPassword" => authOutcome.value = Undefined

C9_Witness ==
    /\ authPc = "done"
    /\ authCall.fn = "login"
    /\ authOutcome.state = "fulfilled"
    /\ authOutcome.value.email # authCall.email

\* C10: updateIssueDocument is invoked for urlId X only when the four checks
\* of X have completed, also when a check function is an async function.
C10_SinkAfterChecksComplete ==
    \A i \in 1..Len(sinkCalls) : sinkCalls[i].unfinished = {}

\* The four checks of urlId u were invoked and none threw.
ChecksRun(u) == \A c \in Cats : checks[u][c] \in {"returned", "pending", "completed"}

\* C11: once the map is over, a urlId one of whose checks threw has no sink
\* submission and the run does not resolve: the join is rejected, with the
\* error of that check when it was the first failure; every other urlId of the
\* result set, earlier or later in iteration order, was still processed: its
\* four checks ran and its sink submission was invoked, unless one of its own
\* checks threw.
C11_CheckThrowDoesNotStopSiblings ==
    (BothFetched /\ DispatchOver) =>
        \A u \in Range(scanResults) :
            CheckThrew(u) =>
                /\ SubmissionsFor(u) = {}
                /\ sink[u].state = "none"
                /\ outcome.state # "fulfilled"
                /\ pall.state = "rejected"
                /\ firstRejected = u =>
                    /\ pall = Rejected(task[u].value)
                    /\ outcome.state = "rejected" => outcome = Rejected(task[u].value)
                /\ \A v \in Range(scanResults) \ {u} :
                    /\ Cardinality(BundlesFor(v)) = 1
                    /\ ~CheckThrew(v) =>
                        /\ ChecksRun(v)
                        /\ Cardinality(SubmissionsFor(v)) = 1

C11_Witness ==
    /\ BothFetched
    /\ Len(scanResults) >= 2
    /\ CheckThrew(scanResults[1])
    /\ ChecksRun(scanResults[2])
    /\ sink[scanResults[2]].state = "fulfilled"
    /\ outcome = Rejected(task[scanResults[1]].value)

\* C12: the bundle submitted for urlId X holds, for each category, what that
\* category's check returned for X's own slice (the metadata check also given
\* the duplicate context), nothing computed from another urlId's data; one
\* issues object is created per urlId and each submission carries its own.
C12_BundleFromOwnSlices ==
    \A i \in 1..Len(sinkCalls) :
        LET X == sinkCalls[i].urlId
            bundle == sinkCalls[i].bundle
        IN
        /\ DOMAIN bundle = Cats
        /\ bundle.meta.result = checkMetaData(UrlData(X).meta, DuplicateContext)
        /\ bundle.body.result = checkBodyData(UrlData(X).body)
        /\ bundle.social.result = checkSocialData(UrlData(X).social)
        /\ bundle.schema.result = checkSchemaData(UrlData(X).schema)
        /\ \A c \in Cats : bundle[c].result.data = <<c, X>>
        /\ Cardinality(BundlesFor(X)) = 1
        /\ bundle = issues[X]
        /\ \A j \in 1..Len(sinkCalls) : j # i => sinkCalls[j].urlId # X

C12_Witness ==
    /\ Len(sinkCalls) >= 2
    /\ \A i \in 1..Len(sinkCalls) : sink[sinkCalls[i].urlId].state = "pending"
    /\ sinkCalls[1].bundle # sinkCalls[2].bundle

\* The calls of one operation of the scan data source.
CallsOf(op) == {i \in 1..Len(fetchLog) : fetchLog[i].op = op}

\* C13: getScanCollection and getDataForDuplicateCheck are each called at most
\* once in a run, getDataForDuplicateCheck only after getScanCollection has
\* fulfilled (never after it rejected), both for the domain and date of the
\* run, and no check, issues object or sink submission exists before both
\* fetches have fulfilled.
C13_FetchesSequentialOnceEach ==
    /\ \A op \in FetchOps : Cardinality(CallsOf(op)) <= 1
    /\ pc # "start" =>
        /\ Cardinality(CallsOf("getScanCollection")) = 1
        /\ fetchLog[1].op = "getScanCollection"
    /\ CallsOf("getDataForDuplicateCheck") # {} =>
        /\ fetches["getScanCollection"].state = "fulfilled"
        /\ CallsOf("getDataForDuplicateCheck") = {2}
    /\ fetches["getScanCollection"].state = "fulfilled" =>
        Cardinality(CallsOf("getDataForDuplicateCheck")) = 1
    /\ fetches["getScanCollection"].state = "rejected" =>
        CallsOf("getDataForDuplicateCheck") = {}
    /\ \A i \in 1..Len(fetchLog) :
        /\ fetchLog[i].domain = config.domain
        /\ fetchLog[i].dateOfScan = config.dateOfScan
    /\ (\/ bundleLog # <<>>
        \/ sinkCalls # <<>>
        \/ \E u \in UrlIds, c \in Cats : checks[u][c] # "none") => BothFetched

C13_Witness ==
    /\ BothFetched
    /\ Len(fetchLog) = 2
    /\ Len(sinkCalls) >= 1
    /\ \E u \in UrlIds : ChecksRun(u)

\* C14 (as amended): the per-URL work items are launched without waiting for
\* one another: while the map runs no sink submission has been accepted and
\* the next callback can always be called, whatever the state of the earlier
\* submissions; when the run starts waiting on the join, the sink submission
\* of every urlId whose checks did not throw has been invoked, so all of them
\* can be in flight together.
C14_AllLaunchedBeforeJoin ==
    /\ pc = "dispatch" =>
        /\ \A u \in UrlIds : sink[u].state # "fulfilled"
        /\ \A u \in UrlIds : task[u].state # "fulfilled"
        /\ idx <= Len(scanResults) => ENABLED MapCallback
    /\ (BothFetched /\ DispatchOver) =>
        \A u \in Range(scanResults) :
            ~CheckThrew(u) => Cardinality(SubmissionsFor(u)) = 1

C14_Witness ==
    /\ pc = "join"
    /\ Len(scanResults) >= 2
    /\ \A u \in Range(scanResults) : sink[u].state = "pending"

\* C14 (as stated): when the run starts waiting on the join, the sink
\* submission of every urlId of the result set has been invoked.
C14_EverySubmissionInvokedAtJoin ==
    pc = "join" => \A u \in Range(scanResults) : sink[u].state # "none"

\* The duplicate context a check result was computed with.
ContextGiven(c) == IF c = "meta" THEN DuplicateContext ELSE Undefined

\* C15: the fetched inputs stay as fetched: the scan result set and the
\* duplicate context equal what the data source returned; the duplicate
\* context is given to the metadata check only, and the sink is given the
\* configuration and the bundle, nothing else; of the configuration only urlId
\* changes: domain and dateOfScan stay the ones the run was called with.
C15_InputsReadOnlyOnlyUrlIdMutated ==
    /\ fetches["getScanCollection"].state = "fulfilled" =>
        scanResults = fetches["getScanCollection"].value
    /\ fetches["getDataForDuplicateCheck"].state = "fulfilled" =>
        all = fetches["getDataForDuplicateCheck"].value
    /\ \A u \in UrlIds : \A c \in DOMAIN issues[u] :
        issues[u][c].result.ctx = ContextGiven(c)
    /\ \A i \in 1..Len(sinkCalls) :
        /\ \A c \in DOMAIN sinkCalls[i].bundle :
            sinkCalls[i].bundle[c].result.ctx = ContextGiven(c)
        /\ DOMAIN sinkCalls[i].config = {"domain", "dateOfScan", "urlId"}
        /\ sinkCalls[i].config.domain = fetchLog[1].domain
        /\ sinkCalls[i].config.dateOfScan = fetchLog[1].dateOfScan
    /\ pc # "start" =>
        /\ config.domain = fetchLog[1].domain
        /\ config.dateOfScan = fetchLog[1].dateOfScan
        /\ config.urlId \in {Undefined} \cup Range(scanResults)

C15_Witness ==
    /\ Len(sinkCalls) >= 2
    /\ config.urlId = sinkCalls[2].urlId
    /\ config.domain = "b.org"
    /\ \E u \in UrlIds : sink[u].state = "fulfilled"

\* C16: every sink call of a run holds the one configuration object of the
\* run; from the join on, its urlId is the last urlId of the result set in
\* iteration order, so that is what a sink write reading config.urlId after
\* the map reads, for every submission: not its own urlId unless it is the last.
C16_ConfigUrlIdIsLastAfterDispatch ==
    (DispatchOver /\ scanResults # <<>>) =>
        LET last == scanResults[Len(scanResults)] IN
        /\ config.urlId = last
        /\ \A i \in 1..Len(sinkCalls) :
            /\ ConfigArgument(sinkCalls[i]) = config
            /\ ConfigArgument(sinkCalls[i]).urlId = last
            /\ sinkCalls[i].urlId # last =>
                ConfigArgument(sinkCalls[i]).urlId # sinkCalls[i].urlId

C16_Witness ==
    /\ DispatchOver
    /\ Len(sinkCalls) >= 2
    /\ sink[sinkCalls[1].urlId].state = "pending"
    /\ ConfigArgument(sinkCalls[1]).urlId = sinkCalls[2].urlId
    /\ sinkCalls[1].urlId # sinkCalls[2].urlId

Settled == outcome.state \in {"fulfilled", "rejected"}
AllSubmissionsFulfilled == \A u \in Range(scanResults) : sink[u].state = "fulfilled"

\* C17: the run settles only if a fetch rejected, or both fetches fulfilled
\* and some per-URL task rejected or every sink submission fulfilled: with no
\* rejected task and a submission that does not settle the run stays pending;
\* and in each of those cases the run does settle.
C17_SettlesIffJoinCanSettle ==
    /\ [](Settled =>
            \/ \E op \in FetchOps : fetches[op].state = "rejected"
            \/ BothFetched /\ DispatchOver /\ FailedUrlIds # {}
            \/ BothFetched /\ DispatchOver /\ AllSubmissionsFulfilled)
    /\ ((\/ \E op \in FetchOps : fetches[op].state = "rejected"
         \/ BothFetched /\ FailedUrlIds # {}
         \/ BothFetched /\ DispatchOver /\ AllSubmissionsFulfilled) ~> Settled)

C17_Witness ==
    /\ pc = "join"
    /\ ~Settled
    /\ FailedUrlIds = {}
    /\ \E u, v \in Range(scanResults) :
        /\ sink[u].state = "fulfilled"
        /\ sink[v].state = "pending"
        /\ ~ENABLED JoinResumes

\* C18: with both fetches fulfilled and an empty scan result set, the join is
\* fulfilled at once and the run does not reject; when it has settled it has
\* resolved to undefined, having made the two fetch calls, no check call, no
\* issues object and no sink submission, with config.urlId still unset.
C18_EmptyResultSetResolves ==
    (BothFetched /\ scanResults = <<>>) =>
        /\ outcome.state # "rejected"
        /\ DispatchOver => pall = Fulfilled(Undefined)
        /\ pc \in {"dispatch", "join", "resolved"}
        /\ Len(fetchLog) = 2
        /\ \A u \in UrlIds, c \in Cats : checks[u][c] = "none"
        /\ bundleLog = <<>>
        /\ sinkCalls = <<>>
        /\ config.urlId = Undefined
        /\ Settled => outcome = Fulfilled(Undefined) /\ errorLog = <<>>
        /\ pc = "join" => ENABLED JoinResumes

C18_Witness ==
    /\ BothFetched
    /\ scanResults = <<>>
    /\ pc = "resolved"
    /\ outcome = Fulfilled(Undefined)

====
